---------------------------- MODULE Spec2Model ----------------------------
(***************************************************************************)
(* QuantBacktestV3: strategy signal generation, the stock backtester and   *)
(* the risk analytics, as state machines over bounded price series.        *)
(*                                                                         *)
(* Number model.  Close prices are integer-valued, so every sum, product   *)
(* and difference of prices, shares and cash below is exact in binary64    *)
(* and is written with TLA+ integers.  A rolling mean is kept as the pair  *)
(* <<sum, count>> and two means are compared by cross-multiplication; the  *)
(* quotients differ by at least 1/(n1*n2) when they differ at all, far     *)
(* above binary64 resolution at these magnitudes.                          *)
(***************************************************************************)
EXTENDS Integers, Sequences, FiniteSets, TLC

VARIABLES
    close,      \* data['Close'] of the run, bar 1 .. Len(close)
    strategy,   \* the constructed Strategy object: its class and its fields
    sphase,     \* position in generate_signals: "new","built","loop","done","error"
    i,          \* bars consumed by the generate_signals for-loop
    current,    \* loop-carried state: `current` (Bollinger) / `prev` (SecondDerivative)
    sig,        \* the list `sig` the loop appends to
    signals,    \* the returned DataFrame: index, signal, positions
    dates,      \* data.index: the dates of the bars of `close`, increasing
    bt,         \* the Backtester object: initial_capital, shares (data and signals
                \* are the frames above)
    bphase,     \* position in the backtest: "none","ready","loop","done","error"
    portfolio,  \* the DataFrame a backtest returns
    profit_target,   \* run_backtest_custom argument, a double
    stop_loss,       \* run_backtest_custom argument, a double
    pct,        \* the percentages the two arguments were computed from
    position,   \* run_backtest_custom locals ...
    entry_price,
    cash,
    total_values,
    positions_series,
    bar,        \* bars consumed by the run_backtest_custom for-loop
    rphase,     \* position in the analytics: "none","beta","beta_done","mc",
                \* "mc_done","var_done"
    strategy_returns,  \* compute_beta arguments: Series as [index, values]
    market_returns,
    beta,              \* compute_beta result
    daily_returns,     \* monte_carlo_simulation: the historical sample
    mc,                \* its other arguments: initial_value, num_simulations, horizon
    simulated_values,  \* the list it appends to, then the returned array
    risk,              \* compute_VaR_CVaR result: VaR, CVaR
    opt,            \* the constructed options strategy object: its class and fields
    option_dates,   \* tkr.options: the expirations the provider reports
    puts,           \* chain.puts: rows [strike, lastPrice]
    calls,          \* chain.calls
    ophase,         \* position in simulate: "none","built","loop","done","error"
    oi,             \* simulate local i, the 0-based bar index of the while-loop
    ocapital,       \* simulate argument initial_capital, in hundredths
    ocash,          \* simulate local cash, in hundredths
    state,          \* Wheel local state: "no_stock" or "stock_owned"
    cost_basis,     \* Wheel local entry_price
    exp_price,      \* simulate locals of the last pass of the loop ...
    chosen_put,
    chosen_call,
    loss_put,
    loss_call,
    portfolio_values,  \* the list simulate appends to
    oportfolio,     \* the 'total' column of the DataFrame simulate returns
    dphase,         \* position in compute_drawdown_metrics: "none","loop","done"
    totals,         \* portfolio['total']: Series as [index, values], index in days
    dbar,           \* bars consumed by its for-loop
    trough,         \* its locals trough, trough_date, recovery_times
    trough_date,
    recovery_times,
    trough_set,     \* history: the date of the bar at which `trough` was last assigned
    drawdown        \* the returned max_drawdown, avg_drawdown, avg_recovery

sigVars == <<close, strategy, sphase, i, current, sig, signals>>

btVars == <<dates, bt, bphase, portfolio, profit_target, stop_loss, pct, position,
            entry_price, cash, total_values, positions_series, bar>>

riskVars == <<rphase, strategy_returns, market_returns, beta, daily_returns, mc,
              simulated_values, risk>>

optVars == <<opt, option_dates, puts, calls, ophase, oi, ocapital, ocash, state, cost_basis,
             exp_price, chosen_put, chosen_call, loss_put, loss_call,
             portfolio_values, oportfolio>>

ddVars == <<dphase, totals, dbar, trough, trough_date, recovery_times, trough_set,
            drawdown>>

customVars == <<profit_target, stop_loss, pct, position, entry_price, cash,
                total_values, positions_series, bar>>

-----------------------------------------------------------------------------
(* Bounds of the exploration *)

MaxBars == 4
MaxWindow == 3
MaxScale == 3

PriceLevels == {1, 2, 4}
Windows == 0 .. MaxWindow

RECURSIVE SeqsUpTo(_, _)
SeqsUpTo(S, n) ==
    IF n = 0 THEN {<<>>}
    ELSE LET shorter == SeqsUpTo(S, n - 1)
         IN  shorter \cup {Append(s, x) : s \in {t \in shorter : Len(t) = n - 1}, x \in S}

\* the ten bars of the documented walk-through, and its two windows
ScenarioPrices == <<100, 101, 102, 101, 100, 99, 98, 99, 100, 101>>
ScenarioWindows == <<2, 4>>

PriceSeries == (SeqsUpTo(PriceLevels, MaxBars) \ {<<>>}) \cup {ScenarioPrices}

-----------------------------------------------------------------------------
(* pandas primitives used by the strategies *)

RECURSIVE SumRange(_, _, _)
SumRange(s, lo, hi) == IF lo > hi THEN 0 ELSE s[hi] + SumRange(s, lo, hi - 1)

Max2(a, b) == IF a >= b THEN a ELSE b

\* Series.rolling(window=w, min_periods=...) refuses a window below min_periods
\* and a negative window when the window object is built.
RollingValid(window, min_periods) == window >= 0 /\ min_periods >= 0 /\ min_periods <= window

\* variant: the sum always divided by the window length, as if the window were full
RollingMeanFullWindow(s, w, t) == <<SumRange(s, Max2(1, t - w + 1), t), w>>

\* rolling(window=w, min_periods=1).mean() at bar t, as <<sum, count>>
RollingMean(s, w, t) ==
    LET lo == Max2(1, t - w + 1)
    IN  <<SumRange(s, lo, t), t - lo + 1>>

\* variant: the short mean must exceed the long mean by an absolute margin of 1
MeanGTMargin(a, b) == a[1] * b[2] > b[1] * a[2] + a[2] * b[2]

\* mean a > mean b, both given as <<sum, count>> with count > 0
MeanGT(a, b) == a[1] * b[2] > b[1] * a[2]

\* variant: the first difference taken against an implicit 0 before the first bar
DiffFromZero(s) == [t \in 1 .. Len(s) |-> IF t = 1 THEN s[1] ELSE s[t] - s[t - 1]]

\* Series.diff().fillna(0.0)
DiffFill0(s) == [t \in 1 .. Len(s) |-> IF t = 1 THEN 0 ELSE s[t] - s[t - 1]]

Frame(sg) == [index |-> [t \in 1 .. Len(sg) |-> t], signal |-> sg, positions |-> DiffFill0(sg)]

NoFrame == [index |-> <<>>, signal |-> <<>>, positions |-> <<>>]

-----------------------------------------------------------------------------
(* SMACrossoverStrategy *)

SMASignalAt(s, short_window, long_window, t) ==
    IF MeanGT(RollingMean(s, short_window, t), RollingMean(s, long_window, t)) THEN 1 ELSE 0

SMASignal(s, short_window, long_window) ==
    [t \in 1 .. Len(s) |-> SMASignalAt(s, short_window, long_window, t)]

SMAInit(short_window, long_window) ==
    /\ sphase = "new"
    /\ strategy' = [kind |-> "SMA", short_window |-> short_window, long_window |-> long_window]
    /\ sphase' = "built"
    /\ UNCHANGED <<close, i, current, sig, signals, btVars, riskVars, optVars, ddVars>>

SMAGenerate ==
    /\ sphase = "built"
    /\ strategy.kind = "SMA"
    /\ IF RollingValid(strategy.short_window, 1) /\ RollingValid(strategy.long_window, 1)
       THEN /\ signals' = Frame(SMASignal(close, strategy.short_window, strategy.long_window))
            /\ sphase' = "done"
       ELSE /\ signals' = NoFrame
            /\ sphase' = "error"
    /\ UNCHANGED <<close, strategy, i, current, sig, btVars, riskVars, optVars, ddVars>>

-----------------------------------------------------------------------------
(* RSITradingStrategy *)

OversoldLevels == {30, 60}
OverboughtLevels == {20, 70}

\* gain = delta.where(delta > 0, 0.0), loss = -delta.where(delta < 0, 0.0);
\* delta is NaN at the first bar, where both are 0
Gain(s, t) == IF t >= 2 /\ s[t] - s[t - 1] > 0 THEN s[t] - s[t - 1] ELSE 0
Loss(s, t) == IF t >= 2 /\ s[t] - s[t - 1] < 0 THEN s[t - 1] - s[t] ELSE 0

RECURSIVE GainSum(_, _, _)
GainSum(s, lo, hi) == IF lo > hi THEN 0 ELSE Gain(s, hi) + GainSum(s, lo, hi - 1)

RECURSIVE LossSum(_, _, _)
LossSum(s, lo, hi) == IF lo > hi THEN 0 ELSE Loss(s, hi) + LossSum(s, lo, hi - 1)

\* rolling(window=period, min_periods=period).mean() is NaN until `period` bars
\* are in the window, and always for an empty window
RSIDefined(period, t) == period >= 1 /\ t >= period

\* r < level for r = compute_rsi(data)[t].  Where the averages are undefined r
\* is the fill value 50.  Elsewhere r = 100*G/(G + L + 1e-9) with G = SG/period
\* and L = SL/period, so r < level iff 100*SG < level*(SG + SL) + level*period*1e-9;
\* SG, SL and level are integers and 0 < level*period*1e-9 < 1, hence the <=.
RSIBelow(s, period, t, level) ==
    IF ~RSIDefined(period, t) THEN 50 < level
    ELSE LET SG == GainSum(s, t - period + 1, t)
             SL == LossSum(s, t - period + 1, t)
         IN  level > 0 /\ 100 * SG <= level * (SG + SL)

RSISignal(s, period, oversold) ==
    [t \in 1 .. Len(s) |-> IF RSIBelow(s, period, t, oversold) THEN 1 ELSE 0]

RSIInit(period, oversold, overbought) ==
    /\ sphase = "new"
    /\ strategy' = [kind |-> "RSI", period |-> period, oversold |-> oversold,
                    overbought |-> overbought]
    /\ sphase' = "built"
    /\ UNCHANGED <<close, i, current, sig, signals, btVars, riskVars, optVars, ddVars>>

RSIGenerate ==
    /\ sphase = "built"
    /\ strategy.kind = "RSI"
    /\ IF RollingValid(strategy.period, strategy.period)
       THEN /\ signals' = Frame(RSISignal(close, strategy.period, strategy.oversold))
            /\ sphase' = "done"
       ELSE /\ signals' = NoFrame
            /\ sphase' = "error"
    /\ UNCHANGED <<close, strategy, i, current, sig, btVars, riskVars, optVars, ddVars>>

-----------------------------------------------------------------------------
(* BollingerBandsStrategy.  std_multiplier is the rational m[1]/m[2] >= 0. *)

StdMultipliers == {<<1, 2>>, <<1, 1>>}

RECURSIVE SumSqRange(_, _, _)
SumSqRange(s, lo, hi) == IF lo > hi THEN 0 ELSE s[hi] * s[hi] + SumSqRange(s, lo, hi - 1)

\* rolling(...).std() is the sample deviation (ddof = 1): NaN on a one-bar window
BandsDefined(w, t) == t - Max2(1, t - w + 1) + 1 >= 2

\* With n bars in the window, S their sum and Q their sum of squares,
\* mean = S/n and std^2 = (n*Q - S^2)/(n*(n-1)).  For m >= 0,
\*   price < mean - m*std  iff  mean - price > 0 and (mean - price)^2 > m^2 * std^2
\* and symmetrically for the upper band; both sides are cleared of denominators.
\* The comparison is the exact one: where the close equals a band exactly, the
\* binary64 band of the code may lie one unit in the last place to either side.
OutsideBand(s, w, m, t, side) ==
    LET lo == Max2(1, t - w + 1)
        n == t - lo + 1
        S == SumRange(s, lo, t)
        Q == SumSqRange(s, lo, t)
        d == side * (S - n * s[t])
    IN  /\ n >= 2
        /\ d > 0
        /\ m[2] * m[2] * d * d * (n - 1) > m[1] * m[1] * n * (n * Q - S * S)

\* price < lower_band[t]; False when the band is NaN
BelowLower(s, w, m, t) == OutsideBand(s, w, m, t, 1)

\* price > upper_band[t]; False when the band is NaN
AboveUpper(s, w, m, t) == OutsideBand(s, w, m, t, -1)

\* variant: a memoryless rule that goes flat whenever the close is not below the band
BollingerNoHold(cur, below, above) == IF below THEN 1 ELSE 0

\* one pass of the for-loop body: the new value of `current`
BollingerUpdate(cur, below, above) ==
    IF below THEN 1 ELSE IF above THEN 0 ELSE cur

BollingerInit(window, std_multiplier) ==
    /\ sphase = "new"
    /\ strategy' = [kind |-> "BB", window |-> window, std_multiplier |-> std_multiplier]
    /\ sphase' = "built"
    /\ UNCHANGED <<close, i, current, sig, signals, btVars, riskVars, optVars, ddVars>>

\* the rolling mean/std and the bands, then sig = [], current = 0
BollingerBegin ==
    /\ sphase = "built"
    /\ strategy.kind = "BB"
    /\ IF RollingValid(strategy.window, 1)
       THEN /\ sphase' = "loop"
            /\ i' = 0
            /\ current' = 0
            /\ sig' = <<>>
            /\ UNCHANGED signals
       ELSE /\ sphase' = "error"
            /\ signals' = NoFrame
            /\ UNCHANGED <<i, current, sig>>
    /\ UNCHANGED <<close, strategy, btVars, riskVars, optVars, ddVars>>

BollingerLoop ==
    /\ sphase = "loop"
    /\ strategy.kind = "BB"
    /\ i < Len(close)
    /\ LET t == i + 1
           c == BollingerUpdate(current,
                                BelowLower(close, strategy.window, strategy.std_multiplier, t),
                                AboveUpper(close, strategy.window, strategy.std_multiplier, t))
       IN  /\ current' = c
           /\ sig' = Append(sig, c)
           /\ i' = t
    /\ UNCHANGED <<close, strategy, sphase, signals, btVars, riskVars, optVars, ddVars>>

BollingerEnd ==
    /\ sphase = "loop"
    /\ strategy.kind = "BB"
    /\ i = Len(close)
    /\ signals' = Frame(sig)
    /\ sphase' = "done"
    /\ UNCHANGED <<close, strategy, i, current, sig, btVars, riskVars, optVars, ddVars>>

-----------------------------------------------------------------------------
(* SecondDerivativeMAStrategy.  threshold is the rational th[1]/th[2].       *)

Thresholds == {<<0, 1>>, <<1, 2>>}

\* signals['ma'].diff().diff() is NaN at the first two bars
SecondDerivDefined(t) == t >= 3

\* ma[t] - 2*ma[t-1] + ma[t-2] as <<numerator, denominator>>, denominator > 0
SecondDeriv(s, w, t) ==
    LET a == RollingMean(s, w, t)
        b == RollingMean(s, w, t - 1)
        c == RollingMean(s, w, t - 2)
    IN  <<a[1] * b[2] * c[2] - 2 * b[1] * a[2] * c[2] + c[1] * a[2] * b[2],
          a[2] * b[2] * c[2]>>

\* val > threshold
SDAbove(v, th) == v[1] * th[2] > th[1] * v[2]

\* val < -threshold
SDBelow(v, th) == v[1] * th[2] < (0 - th[1]) * v[2]

\* variant without memory: inside the dead band the signal drops to 0
SecondDerivNoHold(prev, isna, above, below) ==
    IF isna THEN prev ELSE IF above THEN 1 ELSE 0

\* one pass of the for-loop body: the new value of `prev`, which is also the
\* value appended to sig
SecondDerivUpdate(prev, isna, above, below) ==
    IF isna THEN prev
    ELSE IF above THEN 1
    ELSE IF below THEN 0
    ELSE prev

SecondDerivInit(ma_window, threshold) ==
    /\ sphase = "new"
    /\ strategy' = [kind |-> "SD", ma_window |-> ma_window, threshold |-> threshold]
    /\ sphase' = "built"
    /\ UNCHANGED <<close, i, current, sig, signals, btVars, riskVars, optVars, ddVars>>

SecondDerivBegin ==
    /\ sphase = "built"
    /\ strategy.kind = "SD"
    /\ IF RollingValid(strategy.ma_window, 1)
       THEN /\ sphase' = "loop"
            /\ i' = 0
            /\ current' = 0
            /\ sig' = <<>>
            /\ UNCHANGED signals
       ELSE /\ sphase' = "error"
            /\ signals' = NoFrame
            /\ UNCHANGED <<i, current, sig>>
    /\ UNCHANGED <<close, strategy, btVars, riskVars, optVars, ddVars>>

SecondDerivLoop ==
    /\ sphase = "loop"
    /\ strategy.kind = "SD"
    /\ i < Len(close)
    /\ LET t == i + 1
           isna == ~SecondDerivDefined(t)
           v == IF isna THEN <<0, 1>> ELSE SecondDeriv(close, strategy.ma_window, t)
           p == SecondDerivUpdate(current, isna, SDAbove(v, strategy.threshold),
                                  SDBelow(v, strategy.threshold))
       IN  /\ current' = p
           /\ sig' = Append(sig, p)
           /\ i' = t
    /\ UNCHANGED <<close, strategy, sphase, signals, btVars, riskVars, optVars, ddVars>>

SecondDerivEnd ==
    /\ sphase = "loop"
    /\ strategy.kind = "SD"
    /\ i = Len(close)
    /\ signals' = Frame(sig)
    /\ sphase' = "done"
    /\ UNCHANGED <<close, strategy, i, current, sig, btVars, riskVars, optVars, ddVars>>

-----------------------------------------------------------------------------
(* binary64 arithmetic.                                                     *)
(* The exit thresholds of run_backtest_custom are products of a price and   *)
(* a non-integer factor such as 1 + 0.1, which binary64 rounds.  A natural  *)
(* number is a sequence of limbs in base 2^15, least significant first,     *)
(* without leading zero limbs (0 is <<>>); a positive double is [m, e] with *)
(* m a natural of exactly 53 bits and value m * 2^e.  Zero, subnormals,     *)
(* infinities and NaN are outside the ranges used here.                     *)

MantissaBits == 53
LimbBits == 15
Base == 2 ^ LimbBits

Nat1(n) == IF n = 0 THEN <<>> ELSE <<n>>

\* drop zero limbs at the most significant end
RECURSIVE Canon(_)
Canon(a) == IF a = <<>> \/ a[Len(a)] # 0 THEN a ELSE Canon(SubSeq(a, 1, Len(a) - 1))

Limb(a, k) == IF k <= Len(a) THEN a[k] ELSE 0

RECURSIVE LAddFrom(_, _, _, _)
LAddFrom(a, b, k, carry) ==
    IF k > Len(a) /\ k > Len(b) THEN Nat1(carry)
    ELSE LET t == Limb(a, k) + Limb(b, k) + carry
         IN  <<t % Base>> \o LAddFrom(a, b, k + 1, t \div Base)

LAdd(a, b) == LAddFrom(a, b, 1, 0)

\* a - b for a >= b
RECURSIVE LSubFrom(_, _, _, _)
LSubFrom(a, b, k, borrow) ==
    IF k > Len(a) THEN <<>>
    ELSE LET t == a[k] - Limb(b, k) - borrow
         IN  <<t % Base>> \o LSubFrom(a, b, k + 1, IF t < 0 THEN 1 ELSE 0)

LSub(a, b) == Canon(LSubFrom(a, b, 1, 0))

\* a * x for one limb x
RECURSIVE LScaleFrom(_, _, _, _)
LScaleFrom(a, x, k, carry) ==
    IF k > Len(a) THEN Nat1(carry)
    ELSE LET t == a[k] * x + carry
         IN  <<t % Base>> \o LScaleFrom(a, x, k + 1, t \div Base)

LScale(a, x) == Canon(LScaleFrom(a, x, 1, 0))

ZeroLimbs(k) == [j \in 1 .. k |-> 0]

LShiftLimbs(a, k) == IF a = <<>> THEN a ELSE ZeroLimbs(k) \o a

RECURSIVE LMulFrom(_, _, _)
LMulFrom(a, b, k) ==
    IF k > Len(b) THEN <<>>
    ELSE LAdd(LShiftLimbs(LScale(a, b[k]), k - 1), LMulFrom(a, b, k + 1))

LMul(a, b) == LMulFrom(a, b, 1)

\* -1, 0, 1 as a < b, a = b, a > b
RECURSIVE LCmpFrom(_, _, _)
LCmpFrom(a, b, k) ==
    IF k = 0 THEN 0
    ELSE IF a[k] > b[k] THEN 1
    ELSE IF a[k] < b[k] THEN -1
    ELSE LCmpFrom(a, b, k - 1)

LCmp(a, b) ==
    IF Len(a) > Len(b) THEN 1
    ELSE IF Len(a) < Len(b) THEN -1
    ELSE LCmpFrom(a, b, Len(a))

\* bit j (j = 0 is the least significant) of a
Bit(a, j) == (Limb(a, (j \div LimbBits) + 1) \div (2 ^ (j % LimbBits))) % 2

\* number of bits of a nonzero natural
BitLen(a) ==
    LET top == a[Len(a)]
    IN  LimbBits * (Len(a) - 1) + (CHOOSE k \in 1 .. LimbBits : 2 ^ (k - 1) <= top /\ top < 2 ^ k)

\* a * 2^k
LShl(a, k) == LShiftLimbs(LScale(a, 2 ^ (k % LimbBits)), k \div LimbBits)

\* floor(a / 2^k)
LShr(a, k) ==
    LET q == k \div LimbBits
        r == k % LimbBits
    IN  Canon([j \in 1 .. Len(a) - q |->
                  (Limb(a, j + q) \div (2 ^ r)) + (Limb(a, j + q + 1) % (2 ^ r)) * (2 ^ (LimbBits - r))])

\* a * 2^e (a nonzero) rounded to the nearest double, ties to even
RoundNat(a, e) ==
    LET L == BitLen(a)
    IN  IF L <= MantissaBits
        THEN [m |-> LShl(a, MantissaBits - L), e |-> e - (MantissaBits - L)]
        ELSE LET drop == L - MantissaBits
                 kept == LShr(a, drop)
                 half == Bit(a, drop - 1)
                 sticky == \E j \in 0 .. drop - 2 : Bit(a, j) = 1
                 up == half = 1 /\ (sticky \/ Bit(kept, 0) = 1)
                 r == IF up THEN LAdd(kept, <<1>>) ELSE kept
             IN  IF BitLen(r) > MantissaBits
                 THEN [m |-> LShr(r, 1), e |-> e + drop + 1]
                 ELSE [m |-> r, e |-> e + drop]

\* an integer 0 < n < 2^15 as a double
FFromInt(n) == RoundNat(<<n>>, 0)

FMul(x, y) == RoundNat(LMul(x.m, y.m), x.e + y.e)

Min2(a, b) == IF a <= b THEN a ELSE b

FAdd(x, y) ==
    LET e == Min2(x.e, y.e)
    IN  RoundNat(LAdd(LShl(x.m, x.e - e), LShl(y.m, y.e - e)), e)

\* x - y for x > y > 0
FSub(x, y) ==
    LET e == Min2(x.e, y.e)
    IN  RoundNat(LSub(LShl(x.m, x.e - e), LShl(y.m, y.e - e)), e)

\* x >= y; mantissas of equal bit length make the exponent decide first
FGe(x, y) == x.e > y.e \/ (x.e = y.e /\ LCmp(x.m, y.m) >= 0)

FLe(x, y) == FGe(y, x)

\* limbs of quotient computed by the long division before rounding
DivisionLimbs == 5

\* the limbs of floor(r * Base^k / d), then the remainder, for 0 <= r < d <= Base
RECURSIVE LongDiv(_, _, _, _)
LongDiv(r, d, k, acc) ==
    IF k = 0 THEN [q |-> acc, r |-> r]
    ELSE LongDiv((r * Base) % d, d, k - 1, <<(r * Base) \div d>> \o acc)

\* n / d for integers 0 < n < d <= 2^15, correctly rounded: the quotient to
\* DivisionLimbs limbs, doubled, with a sticky low bit for a nonzero remainder
FDivInt(n, d) ==
    LET res == LongDiv(n, d, DivisionLimbs, <<>>)
        st == IF res.r = 0 THEN <<>> ELSE <<1>>
    IN  RoundNat(LAdd(LScale(Canon(res.q), 2), st), 0 - LimbBits * DivisionLimbs - 1)

-----------------------------------------------------------------------------
(* Backtester *)

\* A DataFrame cell: <<v>> holds the number v, <<>> is NaN.
Num(v) == <<v>>
NaN == <<>>
IsNaN(c) == c = <<>>
NAdd(a, b) == IF IsNaN(a) \/ IsNaN(b) THEN NaN ELSE Num(a[1] + b[1])
NSub(a, b) == IF IsNaN(a) \/ IsNaN(b) THEN NaN ELSE Num(a[1] - b[1])
NMul(a, b) == IF IsNaN(a) \/ IsNaN(b) THEN NaN ELSE Num(a[1] * b[1])

InIndex(idx, d) == \E k \in 1 .. Len(idx) : idx[k] = d

\* Series.loc[d] on a duplicate-free index
Loc(idx, col, d) == col[CHOOSE k \in 1 .. Len(idx) : idx[k] = d]

\* close_prices reindexed to the date d: pandas aligns the operands of * on
\* their indexes and leaves NaN where a side has no row
CloseAt(d) == IF InIndex(dates, d) THEN Num(Loc(dates, close, d)) ELSE NaN

\* Series.cumsum(): NaN cells stay NaN and are skipped by the running sum
RECURSIVE CumSumAt(_, _)
CumSumAt(col, k) ==
    IF k = 0 THEN 0
    ELSE (IF IsNaN(col[k]) THEN 0 ELSE col[k][1]) + CumSumAt(col, k - 1)

CumSum(col) == [k \in 1 .. Len(col) |-> IF IsNaN(col[k]) THEN NaN ELSE Num(CumSumAt(col, k))]

\* the last non-NaN cell at or before k (pct_change pads forward), NaN if none
RECURSIVE Padded(_, _)
Padded(col, k) ==
    IF k = 0 THEN NaN
    ELSE IF IsNaN(col[k]) THEN Padded(col, k - 1)
    ELSE col[k]

\* Series.pct_change().fillna(0.0), each return as <<change, previous value>>
\* (the ratio change/previous); <<0, 1>> is the return 0
PctChangeFill0(col) ==
    [k \in 1 .. Len(col) |->
        LET cur == Padded(col, k)
            prev == Padded(col, k - 1)
        IN  IF IsNaN(cur) \/ IsNaN(prev) THEN <<0, 1>>
            ELSE IF cur[1] = prev[1] THEN <<0, 1>>
            ELSE <<cur[1] - prev[1], prev[1]>>]

NoPortfolio == [index |-> <<>>]

\* variant: the total column mirrors cash and leaves the holdings out
TotalCashOnly(cash_col, holdings_col) == cash_col

\* portfolio['total'] = portfolio['cash'] + portfolio['holdings']
TotalColumn(cash_col, holdings_col) ==
    [k \in 1 .. Len(cash_col) |-> NAdd(cash_col[k], holdings_col[k])]

\* the frame run_backtest returns, on signals.index
Continuous(initial_capital, shares) ==
    LET idx == signals.index
        n == Len(idx)
        positions == [k \in 1 .. n |-> shares * signals.signal[k]]
        holdings == [k \in 1 .. n |-> NMul(Num(positions[k]), CloseAt(idx[k]))]
        pos_diff == DiffFill0(positions)
        traded == [k \in 1 .. n |-> NMul(Num(pos_diff[k]), CloseAt(idx[k]))]
        spent == CumSum(traded)
        cash_col == [k \in 1 .. n |-> NSub(Num(initial_capital), spent[k])]
        total == TotalColumn(cash_col, holdings)
    IN  [index |-> idx, holdings |-> holdings, cash |-> cash_col, total |-> total,
         returns |-> PctChangeFill0(total)]

NewBacktester(initial_capital, shares) ==
    /\ sphase \in {"done", "external"}
    /\ bphase = "none"
    /\ bt' = [initial_capital |-> initial_capital, shares |-> shares]
    /\ bphase' = "ready"
    /\ UNCHANGED <<sigVars, riskVars, optVars, ddVars, dates, portfolio, customVars>>

RunBacktest ==
    /\ bphase = "ready"
    /\ portfolio' = Continuous(bt.initial_capital, bt.shares)
    /\ bphase' = "done"
    /\ UNCHANGED <<sigVars, riskVars, optVars, ddVars, dates, bt, customVars>>

-----------------------------------------------------------------------------
(* Inputs of the backtests *)

MaxBtBars == 3

BtPriceLevels == {95, 100, 110}
Accounts == {<<100000, 100>>, <<1000, 1>>}

\* <<profit target %, stop loss %>> as set on the two sliders
ExitRules == {<<10, 5>>, <<20, 10>>}

Range1(n) == [k \in 1 .. n |-> k]

\* idx without its k-th entry
Without(idx, k) == [m \in 1 .. Len(idx) - 1 |-> IF m < k THEN idx[m] ELSE idx[m + 1]]

\* A signal index is the data index itself, or lacks one of its dates, or has
\* one more date after the last bar.
SignalIndexes(n) ==
    LET idx == Range1(n)
    IN  {idx} \cup {Without(idx, k) : k \in 1 .. n} \cup {Append(idx, n + 1)}

-----------------------------------------------------------------------------
(* Backtester.run_backtest_custom *)

\* entry_price = None
NoEntry == 0

\* price >= entry_price * (1 + profit_target), in binary64
ProfitHit(price, entry, target) ==
    FGe(FFromInt(price), FMul(FFromInt(entry), FAdd(FFromInt(1), target)))

\* price <= entry_price * (1 - stop_loss), in binary64
StopHit(price, entry, stop) ==
    FLe(FFromInt(price), FMul(FFromInt(entry), FSub(FFromInt(1), stop)))

\* The two comparisons above for every price, entry price and argument of the
\* exploration, evaluated once.
ProfitHitAt ==
    [price \in BtPriceLevels, entry \in BtPriceLevels,
     target \in {FDivInt(r[1], 100) : r \in ExitRules} |-> ProfitHit(price, entry, target)]

StopHitAt ==
    [price \in BtPriceLevels, entry \in BtPriceLevels,
     stop \in {FDivInt(r[2], 100) : r \in ExitRules} |-> StopHit(price, entry, stop)]

\* variant: a held position is closed by its thresholds only
LeaveOnThreshold(pos, signal, hit) == pos # 0 /\ hit

\* the else-branch of `if position == 0`: a threshold is hit, or the signal is 0
Leave(pos, signal, hit) == pos # 0 /\ (hit \/ signal = 0)

\* the caller's slider percentages divided by 100.0, then the locals of the run
CustomBegin(profit_pct, stop_pct) ==
    /\ bphase = "ready"
    /\ pct' = [profit |-> profit_pct, stop |-> stop_pct]
    /\ profit_target' = FDivInt(profit_pct, 100)
    /\ stop_loss' = FDivInt(stop_pct, 100)
    /\ position' = 0
    /\ entry_price' = NoEntry
    /\ cash' = bt.initial_capital
    /\ total_values' = <<>>
    /\ positions_series' = <<>>
    /\ bar' = 0
    /\ bphase' = "loop"
    /\ UNCHANGED <<sigVars, riskVars, optVars, ddVars, dates, bt, portfolio>>

\* one pass of the for-loop over data['Close'].items()
CustomLoop ==
    /\ bphase = "loop"
    /\ bar < Len(close)
    /\ LET date == dates[bar + 1]
           price == close[bar + 1]
       IN  IF ~InIndex(signals.index, date)
           THEN \* signals['signal'].loc[date] raises KeyError
                /\ bphase' = "error"
                /\ portfolio' = NoPortfolio
                /\ UNCHANGED customVars
           ELSE LET signal == Loc(signals.index, signals.signal, date)
                    enter == position = 0 /\ signal = 1
                    leave == Leave(position, signal,
                                   position # 0 /\
                                       (ProfitHitAt[price, entry_price, profit_target]
                                        \/ StopHitAt[price, entry_price, stop_loss]))
                    pos == IF enter THEN bt.shares ELSE IF leave THEN 0 ELSE position
                    csh == IF enter THEN cash - price * bt.shares
                           ELSE IF leave THEN cash + price * bt.shares
                           ELSE cash
                IN  /\ position' = pos
                    /\ entry_price' = IF enter THEN price
                                      ELSE IF leave THEN NoEntry ELSE entry_price
                    /\ cash' = csh
                    /\ total_values' = Append(total_values, csh + pos * price)
                    /\ positions_series' = Append(positions_series, pos)
                    /\ bar' = bar + 1
                    /\ UNCHANGED <<bphase, portfolio, profit_target, stop_loss, pct>>
    /\ UNCHANGED <<sigVars, riskVars, optVars, ddVars, dates, bt>>

CustomEnd ==
    /\ bphase = "loop"
    /\ bar = Len(close)
    /\ portfolio' = [index |-> dates, total |-> total_values, positions |-> positions_series,
                     returns |-> PctChangeFill0([k \in 1 .. Len(total_values) |->
                                                    Num(total_values[k])])]
    /\ bphase' = "done"
    /\ UNCHANGED <<sigVars, riskVars, optVars, ddVars, dates, bt, customVars>>

-----------------------------------------------------------------------------
ZeroCustom ==
    /\ profit_target = FDivInt(1, 100)
    /\ stop_loss = FDivInt(1, 100)
    /\ pct = [profit |-> 1, stop |-> 1]
    /\ position = 0
    /\ entry_price = NoEntry
    /\ cash = 0
    /\ total_values = <<>>
    /\ positions_series = <<>>
    /\ bar = 0

-----------------------------------------------------------------------------
(* Analytics: compute_beta *)
(* Returns are integers in a fixed unit; a ratio is the pair <<num, den>>.   *)

MaxReturns == 3
ReturnLevels == {-1, 0, 2}

\* the Series over every increasing index within 1 .. n
SeriesOver(n, levels) ==
    UNION {{[index |-> idx, values |-> v] : v \in [1 .. Len(idx) -> levels]} :
           idx \in {q \in SeqsUpTo(1 .. n, n) :
                       \A k \in 1 .. Len(q) - 1 : q[k] < q[k + 1]}}

\* strategy_returns.index.intersection(market_returns.index), in index order
RECURSIVE Intersection(_, _, _)
Intersection(ia, ib, k) ==
    IF k > Len(ia) THEN <<>>
    ELSE (IF InIndex(ib, ia[k]) THEN <<ia[k]>> ELSE <<>>) \o Intersection(ia, ib, k + 1)

\* series.loc[common_index].dropna().values; the series hold no NaN
ValuesAt(series, common) ==
    [k \in 1 .. Len(common) |-> Loc(series.index, series.values, common[k])]

RECURSIVE DotRange(_, _, _)
DotRange(a, b, k) == IF k = 0 THEN 0 ELSE a[k] * b[k] + DotRange(a, b, k - 1)

\* np.cov(a, b)[0, 1]: sum((a - mean a)*(b - mean b)) / (N - 1)
Cov(a, b) ==
    LET N == Len(a)
    IN  <<N * DotRange(a, b, N) - SumRange(a, 1, N) * SumRange(b, 1, N), N * (N - 1)>>

\* np.var(b): sum((b - mean b)^2) / N
Var(b) ==
    LET N == Len(b)
    IN  <<N * DotRange(b, b, N) - SumRange(b, 1, N) * SumRange(b, 1, N), N * N>>

NaNRatio == <<0, 0>>

\* the value compute_beta returns
Beta(sr, mr) ==
    LET common == Intersection(sr.index, mr.index, 1)
        a == ValuesAt(sr, common)
        b == ValuesAt(mr, common)
    IN  IF Len(common) < 2 THEN NaNRatio
        ELSE IF Len(b) < 2 THEN NaNRatio
        ELSE LET covariance == Cov(a, b)
                 variance == Var(b)
             IN  IF variance[1] # 0
                 THEN <<covariance[1] * variance[2], covariance[2] * variance[1]>>
                 ELSE NaNRatio

ComputeBeta ==
    /\ rphase = "beta"
    /\ beta' = Beta(strategy_returns, market_returns)
    /\ rphase' = "beta_done"
    /\ UNCHANGED <<sigVars, btVars, optVars, ddVars, strategy_returns, market_returns, daily_returns, mc,
                   simulated_values, risk>>

-----------------------------------------------------------------------------
(* Analytics: monte_carlo_simulation and compute_VaR_CVaR *)
(* A daily return is r/ReturnUnit for an integer r, so 1 + return is         *)
(* (ReturnUnit + r)/ReturnUnit; a simulated value is kept as its numerator   *)
(* over the common denominator ReturnUnit^horizon.                           *)

ReturnUnit == 2
MaxSample == 2
MaxSims == 2
SampleLevels == {-1, 0, 1}
Horizons == {1, 2}
InitialValues == {1000}
ConfidencePcts == {50, 95}

\* variant: the drawn return compounded without the 1 +
GrowthFactorRaw(r) == r

\* 1 + sim_return, numerator over ReturnUnit
GrowthFactor(r) == ReturnUnit + r

\* np.prod(1 + sim_return), numerator over ReturnUnit^Len(draw)
RECURSIVE GrowthOf(_, _, _)
GrowthOf(sample, draw, k) ==
    IF k = 0 THEN 1 ELSE GrowthFactor(sample[draw[k]]) * GrowthOf(sample, draw, k - 1)

Growth(sample, draw) == GrowthOf(sample, draw, Len(draw))

\* one pass of the for-loop: np.random.choice draws `horizon` sample places
\* with replacement
MCStep ==
    /\ rphase = "mc"
    /\ Len(simulated_values) < mc.num_simulations
    /\ \E draw \in [1 .. mc.horizon -> 1 .. Len(daily_returns)] :
           simulated_values' =
               Append(simulated_values, mc.initial_value * Growth(daily_returns, draw))
    /\ UNCHANGED <<sigVars, btVars, optVars, ddVars, rphase, strategy_returns, market_returns, beta,
                   daily_returns, mc, risk>>

MCReturn ==
    /\ rphase = "mc"
    /\ Len(simulated_values) = mc.num_simulations
    /\ rphase' = "mc_done"
    /\ UNCHANGED <<sigVars, btVars, optVars, ddVars, strategy_returns, market_returns, beta,
                   daily_returns, mc, simulated_values, risk>>

\* the k-th smallest entry of v, k in 1 .. Len(v)
Kth(v, k) ==
    CHOOSE x \in {v[n] : n \in 1 .. Len(v)} :
        /\ Cardinality({n \in 1 .. Len(v) : v[n] < x}) < k
        /\ Cardinality({n \in 1 .. Len(v) : v[n] <= x}) >= k

\* np.percentile(v, 100 - c), linear interpolation between the two nearest
\* order statistics, as <<num, 100>>
Percentile(v, c) ==
    LET at == (100 - c) * (Len(v) - 1)
        lo == Kth(v, (at \div 100) + 1)
        hi == IF at % 100 = 0 THEN lo ELSE Kth(v, (at \div 100) + 2)
    IN  <<100 * lo + (at % 100) * (hi - lo), 100>>

RECURSIVE SumWhere(_, _, _)
SumWhere(v, keep, k) ==
    IF k = 0 THEN 0 ELSE (IF k \in keep THEN v[k] ELSE 0) + SumWhere(v, keep, k - 1)

\* simulated_values[simulated_values <= VaR].mean(), as <<sum, count>>
TailMean(v, VaR) ==
    LET keep == {n \in 1 .. Len(v) : v[n] * VaR[2] <= VaR[1]}
    IN  <<SumWhere(v, keep, Len(v)), Cardinality(keep)>>

ComputeVaRCVaR(confidence_pct) ==
    /\ rphase = "mc_done"
    /\ LET VaR == Percentile(simulated_values, confidence_pct)
       IN  risk' = [confidence |-> confidence_pct, VaR |-> VaR,
                    CVaR |-> TailMean(simulated_values, VaR)]
    /\ rphase' = "var_done"
    /\ UNCHANGED <<sigVars, btVars, optVars, ddVars, strategy_returns, market_returns, beta,
                   daily_returns, mc, simulated_values>>

NoSeries == [index |-> <<>>, values |-> <<>>]
NoRisk == [confidence |-> 0, VaR |-> NaNRatio, CVaR |-> NaNRatio]
NoMC == [initial_value |-> 0, num_simulations |-> 0, horizon |-> 0]

ZeroRisk ==
    /\ rphase = "none"
    /\ strategy_returns = NoSeries
    /\ market_returns = NoSeries
    /\ beta = NaNRatio
    /\ daily_returns = <<>>
    /\ mc = NoMC
    /\ simulated_values = <<>>
    /\ risk = NoRisk

-----------------------------------------------------------------------------
(* Options strategies: WheelStrategyOptions, CreditSpreadsStrategyOptions,  *)
(* IronCondorsStrategyOptions.                                              *)
(* Prices, strikes and premiums are integer-valued.  An offset is a whole   *)
(* percentage divided by 100.0, and a target strike is the binary64 product *)
(* price * (1 -/+ offset).  Cash is counted in hundredths, which holds the  *)
(* Iron-Condor losses strike - target exactly.                              *)

MaxOptBars == 3

OptPriceLevels == {90, 100, 110}

Row(strike, lastPrice) == [strike |-> strike, lastPrice |-> lastPrice]

\* the option tables of the exploration: no rows, two strikes around the price,
\* one far strike, and two strikes at equal distance from 95
QuoteTables ==
    {<<>>,
     <<Row(95, 2), Row(105, 1)>>,
     <<Row(120, 1)>>,
     <<Row(100, 1), Row(90, 2)>>}

\* initial_capital of simulate
Capitals == {0, 10000}

\* <<put_offset %, call_offset %, holding_period, shares>>
WheelParams == {<<5, 5, 1, 100>>, <<5, 2, 2, 1>>}

\* <<spread_width, spread_offset %, holding_period>>
CreditSpreadsParams == {<<5, 5, 1>>, <<5, 2, 2>>}

\* <<lower_put_offset %, upper_call_offset %, inner_put_offset %,
\*   inner_call_offset %, holding_period>>
IronCondorsParams == {<<5, 5, 2, 2, 1>>, <<5, 5, 2, 2, 2>>}

Cents(x) == 100 * x

\* every offset percentage of the exploration
OffsetPcts ==
    UNION ({{w[1], w[2]} : w \in WheelParams} \cup {{c[2]} : c \in CreditSpreadsParams}
           \cup {{c[1], c[2], c[3], c[4]} : c \in IronCondorsParams})

\* every strike quoted in a table
StrikeLevels == UNION {{tb[k].strike : k \in 1 .. Len(tb)} : tb \in QuoteTables}

\* every value a target strike is computed from: a close or a held strike
TargetBases == OptPriceLevels \cup StrikeLevels

\* 1 - offset for side = -1, 1 + offset for side = 1, the offset being
\* offset_pct / 100.0
OffsetFactor(offset_pct, side) ==
    IF side = 1 THEN FAdd(FFromInt(1), FDivInt(offset_pct, 100))
    ELSE FSub(FFromInt(1), FDivInt(offset_pct, 100))

OffsetFactorAt == [offset_pct \in OffsetPcts, side \in {-1, 1} |-> OffsetFactor(offset_pct, side)]

\* price * (1 - offset) or price * (1 + offset), for every base price
DesiredStrike ==
    [price \in TargetBases, offset_pct \in OffsetPcts, side \in {-1, 1} |->
        FMul(FFromInt(price), OffsetFactorAt[offset_pct, side])]

FZero == [m |-> <<>>, e |-> 0]

\* (x - y).abs() for positive doubles
FAbsDiff(x, y) == IF x = y THEN FZero ELSE IF FGe(x, y) THEN FSub(x, y) ELSE FSub(y, x)

\* x < y for doubles that are positive or zero
FLt(x, y) == IF y = FZero THEN FALSE ELSE IF x = FZero THEN TRUE ELSE ~FGe(x, y)

\* (table['strike'] - desired_strike).abs(), for every strike and target
Distance ==
    [strike \in StrikeLevels, price \in TargetBases, offset_pct \in OffsetPcts,
     side \in {-1, 1} |-> FAbsDiff(FFromInt(strike), DesiredStrike[price, offset_pct, side])]

\* (table['strike'] - desired_strike).abs().idxmin(): the first row at the
\* least distance
IdxMin(table, price, offset_pct, side) ==
    CHOOSE k \in 1 .. Len(table) :
        /\ \A m \in 1 .. Len(table) :
               ~FLt(Distance[table[m].strike, price, offset_pct, side],
                    Distance[table[k].strike, price, offset_pct, side])
        /\ \A m \in 1 .. k - 1 :
               FLt(Distance[table[k].strike, price, offset_pct, side],
                   Distance[table[m].strike, price, offset_pct, side])

\* table.loc[idxmin] for every table, base price, offset and side, evaluated once
ChosenAt ==
    [table \in QuoteTables \ {<<>>}, price \in TargetBases, offset_pct \in OffsetPcts,
     side \in {-1, 1} |-> table[IdxMin(table, price, offset_pct, side)]]

\* data['Close'].iloc[i + holding_period] if that bar exists, else the price
\* of bar i (i is 0-based)
ExpPrice(k, holding_period) ==
    IF k + holding_period < Len(close) THEN close[k + holding_period + 1] ELSE close[k + 1]

NoRow == Row(0, 0)


-----------------------------------------------------------------------------
(* The start of simulate, common to the three classes: the expirations of   *)
(* the provider, then the locals.                                           *)

BeginSimulate(kind, initial_capital) ==
    /\ ophase = "built"
    /\ opt.kind = kind
    /\ ocapital' = Cents(initial_capital)
    /\ IF option_dates = <<>>
       THEN \* raise ValueError("No options data available for ticker.")
            /\ ophase' = "error"
            /\ UNCHANGED <<ocash, state, cost_basis, oi, portfolio_values>>
       ELSE /\ ophase' = "loop"
            /\ ocash' = Cents(initial_capital)
            /\ state' = "no_stock"
            /\ cost_basis' = NoEntry
            /\ portfolio_values' = <<>>
            /\ oi' = 0
    /\ UNCHANGED <<opt, option_dates, puts, calls, exp_price, chosen_put, chosen_call,
                   loss_put, loss_call, oportfolio>>
    /\ UNCHANGED <<sigVars, btVars, riskVars, ddVars>>

\* idxmin of an empty column raises ValueError: simulate ends without a frame
RaiseInLoop ==
    /\ ophase' = "error"
    /\ UNCHANGED <<oi, ocash, state, cost_basis, exp_price, chosen_put, chosen_call,
                   loss_put, loss_call, portfolio_values>>

\* portfolio_values[:len(dates)] as the 'total' column of a frame on data.index
EndSimulate(kind) ==
    /\ ophase = "loop"
    /\ opt.kind = kind
    /\ oi >= Len(close)
    /\ oportfolio' = SubSeq(portfolio_values, 1, Len(close))
    /\ ophase' = "done"
    /\ UNCHANGED <<opt, option_dates, puts, calls, oi, ocapital, ocash, state, cost_basis,
                   exp_price, chosen_put, chosen_call, loss_put, loss_call,
                   portfolio_values>>
    /\ UNCHANGED <<sigVars, btVars, riskVars, ddVars>>

-----------------------------------------------------------------------------
(* WheelStrategyOptions *)

WheelInit(put_offset, call_offset, holding_period, shares) ==
    /\ ophase = "none"
    /\ opt' = [kind |-> "Wheel", put_offset |-> put_offset, call_offset |-> call_offset,
               holding_period |-> holding_period, shares |-> shares]
    /\ ophase' = "built"
    /\ UNCHANGED <<option_dates, puts, calls, oi, ocapital, ocash, state, cost_basis,
                   exp_price, chosen_put, chosen_call, loss_put, loss_call,
                   portfolio_values, oportfolio>>
    /\ UNCHANGED <<sigVars, btVars, riskVars, ddVars>>

WheelBegin(initial_capital) == BeginSimulate("Wheel", initial_capital)

\* variant: the put is exercised whether or not the cash covers the cost
AssignedUnfunded(expiry, strike, csh, cost) == expiry < strike

\* variant: the put is exercised at the strike as well as below it
AssignedAtStrike(expiry, strike, csh, cost) == expiry <= strike /\ csh >= cost

\* exp_price < chosen_put['strike'], then cash >= cost
Assigned(expiry, strike, csh, cost) == expiry < strike /\ csh >= cost

\* exp_price > chosen_call['strike']
CalledAway(expiry, strike) == expiry > strike

\* the body of the loop in state no_stock, given the chosen put and exp_price
WheelNoStockWith(price, put, expiry) ==
    LET csh == ocash + Cents(put.lastPrice * opt.shares)
        cost == Cents(put.strike * opt.shares)
        assigned == Assigned(expiry, put.strike, csh, cost)
        after == IF assigned THEN csh - cost ELSE csh
    IN  /\ chosen_put' = put
        /\ exp_price' = expiry
        /\ ocash' = after
        /\ state' = IF assigned THEN "stock_owned" ELSE "no_stock"
        /\ cost_basis' = IF assigned THEN put.strike ELSE cost_basis
        /\ portfolio_values' =
               Append(portfolio_values,
                      IF assigned THEN after + Cents(price * opt.shares) ELSE after)
        /\ oi' = oi + 1
        /\ UNCHANGED <<ophase, chosen_call, loss_put, loss_call>>

\* one pass of the while-loop in state no_stock
WheelNoStock ==
    IF puts = <<>> THEN RaiseInLoop
    ELSE WheelNoStockWith(close[oi + 1], ChosenAt[puts, close[oi + 1], opt.put_offset, -1],
                          ExpPrice(oi, opt.holding_period))

\* the body of the loop in state stock_owned, given the chosen call and exp_price
WheelStockOwnedWith(price, call, expiry) ==
    LET csh == ocash + Cents(call.lastPrice * opt.shares)
        called == CalledAway(expiry, call.strike)
        after == IF called THEN csh + Cents(call.strike * opt.shares) ELSE csh
    IN  /\ chosen_call' = call
        /\ exp_price' = expiry
        /\ ocash' = after
        /\ state' = IF called THEN "no_stock" ELSE "stock_owned"
        /\ cost_basis' = IF called THEN NoEntry ELSE cost_basis
        /\ portfolio_values' =
               Append(portfolio_values,
                      IF called THEN after ELSE after + Cents(price * opt.shares))
        /\ oi' = oi + 1
        /\ UNCHANGED <<ophase, chosen_put, loss_put, loss_call>>

\* one pass of the while-loop in state stock_owned
WheelStockOwned ==
    IF calls = <<>> THEN RaiseInLoop
    ELSE WheelStockOwnedWith(close[oi + 1], ChosenAt[calls, cost_basis, opt.call_offset, 1],
                             ExpPrice(oi, opt.holding_period))

WheelLoop ==
    /\ ophase = "loop"
    /\ opt.kind = "Wheel"
    /\ oi < Len(close)
    /\ IF state = "no_stock" THEN WheelNoStock ELSE WheelStockOwned
    /\ UNCHANGED <<opt, option_dates, puts, calls, ocapital, oportfolio>>
    /\ UNCHANGED <<sigVars, btVars, riskVars, ddVars>>

WheelEnd == EndSimulate("Wheel")


-----------------------------------------------------------------------------
(* CreditSpreadsStrategyOptions and IronCondorsStrategyOptions step through *)
(* the bars in blocks of holding_period.                                    *)

\* variant: one value per block instead of one per bar of the block
OneCopy(values, value, holding_period) == Append(values, value)

\* for j in range(self.holding_period): portfolio_values.append(cash)
RECURSIVE AppendCopies(_, _, _)
AppendCopies(values, value, holding_period) ==
    IF holding_period <= 0 THEN values
    ELSE AppendCopies(Append(values, value), value, holding_period - 1)

CreditSpreadsInit(spread_width, spread_offset, holding_period) ==
    /\ ophase = "none"
    /\ opt' = [kind |-> "CreditSpreads", spread_width |-> spread_width,
               spread_offset |-> spread_offset, holding_period |-> holding_period]
    /\ ophase' = "built"
    /\ UNCHANGED <<option_dates, puts, calls, oi, ocapital, ocash, state, cost_basis,
                   exp_price, chosen_put, chosen_call, loss_put, loss_call,
                   portfolio_values, oportfolio>>
    /\ UNCHANGED <<sigVars, btVars, riskVars, ddVars>>

CreditSpreadsBegin(initial_capital) == BeginSimulate("CreditSpreads", initial_capital)

\* the body of the loop, given the chosen put and exp_price
CreditSpreadsWith(put, expiry) ==
    LET profit == IF expiry > put.strike THEN put.lastPrice
                  ELSE 0 - (opt.spread_width - put.lastPrice)
        after == ocash + Cents(profit)
    IN  /\ chosen_put' = put
        /\ exp_price' = expiry
        /\ ocash' = after
        /\ portfolio_values' = AppendCopies(portfolio_values, after, opt.holding_period)
        /\ oi' = oi + opt.holding_period
        /\ UNCHANGED <<ophase, state, cost_basis, chosen_call, loss_put, loss_call>>

\* one pass of the while-loop: one block
CreditSpreadsLoop ==
    /\ ophase = "loop"
    /\ opt.kind = "CreditSpreads"
    /\ oi < Len(close)
    /\ IF puts = <<>> THEN RaiseInLoop
       ELSE CreditSpreadsWith(ChosenAt[puts, close[oi + 1], opt.spread_offset, -1],
                              ExpPrice(oi, opt.holding_period))
    /\ UNCHANGED <<opt, option_dates, puts, calls, ocapital, oportfolio>>
    /\ UNCHANGED <<sigVars, btVars, riskVars, ddVars>>

CreditSpreadsEnd == EndSimulate("CreditSpreads")

IronCondorsInit(lower_put_offset, upper_call_offset, inner_put_offset, inner_call_offset, holding_period) ==
    /\ ophase = "none"
    /\ opt' = [kind |-> "IronCondors", lower_put_offset |-> lower_put_offset,
               upper_call_offset |-> upper_call_offset,
               inner_put_offset |-> inner_put_offset,
               inner_call_offset |-> inner_call_offset, holding_period |-> holding_period]
    /\ ophase' = "built"
    /\ UNCHANGED <<option_dates, puts, calls, oi, ocapital, ocash, state, cost_basis,
                   exp_price, chosen_put, chosen_call, loss_put, loss_call,
                   portfolio_values, oportfolio>>
    /\ UNCHANGED <<sigVars, btVars, riskVars, ddVars>>

IronCondorsBegin(initial_capital) == BeginSimulate("IronCondors", initial_capital)

\* chosen_put['strike'] - outer_put_target, in hundredths
PutLoss(strike, price, lower_put_offset) == Cents(strike) - price * (100 - lower_put_offset)

\* outer_call_target - chosen_call['strike'], in hundredths
CallLoss(strike, price, upper_call_offset) == price * (100 + upper_call_offset) - Cents(strike)

\* the body of the loop, given the chosen rows and exp_price
IronCondorsWith(price, put, call, expiry) ==
    LET total_premium == Cents(put.lastPrice + call.lastPrice)
        inside == expiry >= put.strike /\ expiry <= call.strike
        lp == IF expiry < put.strike THEN PutLoss(put.strike, price, opt.lower_put_offset)
              ELSE 0
        lc == IF expiry > call.strike
              THEN CallLoss(call.strike, price, opt.upper_call_offset)
              ELSE 0
        profit == IF inside THEN total_premium ELSE total_premium - (lp + lc)
        after == ocash + profit
    IN  /\ chosen_put' = put
        /\ chosen_call' = call
        /\ exp_price' = expiry
        /\ loss_put' = IF inside THEN loss_put ELSE lp
        /\ loss_call' = IF inside THEN loss_call ELSE lc
        /\ ocash' = after
        /\ portfolio_values' = AppendCopies(portfolio_values, after, opt.holding_period)
        /\ oi' = oi + opt.holding_period
        /\ UNCHANGED <<ophase, state, cost_basis>>

\* one pass of the while-loop: one block
IronCondorsLoop ==
    /\ ophase = "loop"
    /\ opt.kind = "IronCondors"
    /\ oi < Len(close)
    /\ IF puts = <<>> \/ calls = <<>> THEN RaiseInLoop
       ELSE IronCondorsWith(close[oi + 1],
                            ChosenAt[puts, close[oi + 1], opt.inner_put_offset, -1],
                            ChosenAt[calls, close[oi + 1], opt.inner_call_offset, 1],
                            ExpPrice(oi, opt.holding_period))
    /\ UNCHANGED <<opt, option_dates, puts, calls, ocapital, oportfolio>>
    /\ UNCHANGED <<sigVars, btVars, riskVars, ddVars>>

IronCondorsEnd == EndSimulate("IronCondors")

ZeroOptions ==
    /\ opt = [kind |-> "none"]
    /\ option_dates = <<>>
    /\ puts = <<>>
    /\ calls = <<>>
    /\ ophase = "none"
    /\ oi = 0
    /\ ocapital = 0
    /\ ocash = 0
    /\ state = "no_stock"
    /\ cost_basis = NoEntry
    /\ exp_price = 0
    /\ chosen_put = NoRow
    /\ chosen_call = NoRow
    /\ loss_put = 0
    /\ loss_call = 0
    /\ portfolio_values = <<>>
    /\ oportfolio = <<>>


-----------------------------------------------------------------------------
(* Analytics: compute_drawdown_metrics.  The index of portfolio['total'] is *)
(* a sequence of increasing day numbers; values are positive integers.      *)

MaxDdBars == 4
TotalLevels == {90, 100, 110}

\* days between consecutive bars of the index
DayStrides == {1, 3}

TotalSeries ==
    {[index |-> [k \in 1 .. Len(v) |-> st * k], values |-> v] :
        v \in SeqsUpTo(TotalLevels, MaxDdBars) \ {<<>>}, st \in DayStrides}

\* total.cummax() at bar k
RECURSIVE CumMax(_, _)
CumMax(v, k) == IF k = 1 THEN v[1] ELSE Max2(v[k], CumMax(v, k - 1))

\* drawdown = (total - peak) / peak at bar k, as <<num, den>>
DrawdownAt(v, k) == <<v[k] - CumMax(v, k), CumMax(v, k)>>

\* drawdown.min()
MaxDrawdown(v) ==
    LET k == CHOOSE m \in 1 .. Len(v) :
                 \A q \in 1 .. Len(v) :
                     DrawdownAt(v, m)[1] * DrawdownAt(v, q)[2]
                         <= DrawdownAt(v, q)[1] * DrawdownAt(v, m)[2]
    IN  DrawdownAt(v, k)

\* drawdown[drawdown < 0]: the ratios avg_drawdown is the mean of (NaN if none)
RECURSIVE NegativeDrawdowns(_, _)
NegativeDrawdowns(v, k) ==
    IF k = 0 THEN <<>>
    ELSE NegativeDrawdowns(v, k - 1)
             \o (IF DrawdownAt(v, k)[1] < 0 THEN <<DrawdownAt(v, k)>> ELSE <<>>)

NoDrawdown == [max_drawdown |-> NaNRatio, avg_drawdown |-> <<>>, avg_recovery |-> NaNRatio]

\* lines 373-380: the columns, then the locals of the loop
DrawdownBegin ==
    /\ dphase = "ready"
    /\ trough' = totals.values[1]
    /\ trough_date' = totals.index[1]
    /\ trough_set' = totals.index[1]
    /\ recovery_times' = <<>>
    /\ dbar' = 0
    /\ dphase' = "loop"
    /\ UNCHANGED <<totals, drawdown>>
    /\ UNCHANGED <<sigVars, btVars, riskVars, optVars>>

\* one pass of the for-loop over total.items()
DrawdownLoop ==
    /\ dphase = "loop"
    /\ dbar < Len(totals.values)
    /\ LET date == totals.index[dbar + 1]
           value == totals.values[dbar + 1]
           lower == value < trough
           tr == IF lower THEN value ELSE trough
           td == IF lower THEN date ELSE trough_date
           recovered == value >= CumMax(totals.values, dbar + 1) /\ tr < value
       IN  /\ recovery_times' = IF recovered THEN Append(recovery_times, date - td)
                                ELSE recovery_times
           /\ trough' = IF recovered THEN value ELSE tr
           /\ trough_date' = td
           /\ trough_set' = IF recovered \/ lower THEN date ELSE trough_set
           /\ dbar' = dbar + 1
    /\ UNCHANGED <<dphase, totals, drawdown>>
    /\ UNCHANGED <<sigVars, btVars, riskVars, optVars>>

\* avg_recovery = np.mean(recovery_times) if recovery_times else np.nan
DrawdownEnd ==
    /\ dphase = "loop"
    /\ dbar = Len(totals.values)
    /\ drawdown' =
           [max_drawdown |-> MaxDrawdown(totals.values),
            avg_drawdown |-> NegativeDrawdowns(totals.values, Len(totals.values)),
            avg_recovery |-> IF recovery_times = <<>> THEN NaNRatio
                             ELSE <<SumRange(recovery_times, 1, Len(recovery_times)),
                                    Len(recovery_times)>>]
    /\ dphase' = "done"
    /\ UNCHANGED <<totals, dbar, trough, trough_date, recovery_times, trough_set>>
    /\ UNCHANGED <<sigVars, btVars, riskVars, optVars>>

ZeroDrawdown ==
    /\ dphase = "none"
    /\ totals = NoSeries
    /\ dbar = 0
    /\ trough = 0
    /\ trough_date = 0
    /\ recovery_times = <<>>
    /\ trough_set = 0
    /\ drawdown = NoDrawdown

-----------------------------------------------------------------------------

Init ==
    /\ close \in PriceSeries
    /\ strategy = [kind |-> "none"]
    /\ sphase = "new"
    /\ i = 0
    /\ current = 0
    /\ sig = <<>>
    /\ signals = NoFrame
    /\ dates = Range1(Len(close))
    /\ bt = [initial_capital |-> 0, shares |-> 0]
    /\ bphase = "none"
    /\ portfolio = NoPortfolio
    /\ ZeroCustom
    /\ ZeroRisk
    /\ ZeroOptions
    /\ ZeroDrawdown

Next ==
    \/ \E w \in (Windows \X Windows) \cup {ScenarioWindows} : SMAInit(w[1], w[2])
    \/ SMAGenerate
    \/ \E p \in Windows, os \in OversoldLevels, ob \in OverboughtLevels : RSIInit(p, os, ob)
    \/ RSIGenerate
    \/ \E w \in Windows, m \in StdMultipliers : BollingerInit(w, m)
    \/ BollingerBegin
    \/ BollingerLoop
    \/ BollingerEnd
    \/ \E w \in Windows, th \in Thresholds : SecondDerivInit(w, th)
    \/ SecondDerivBegin
    \/ SecondDerivLoop
    \/ SecondDerivEnd
    \/ \E a \in Accounts : NewBacktester(a[1], a[2])
    \/ RunBacktest

vars == <<sigVars, btVars, riskVars, optVars, ddVars>>

Spec == Init /\ [][Next]_vars

\* The backtester on frames supplied by the caller: any prices, any 0/1 signal
\* column, on indexes that agree or differ in one date.
InitBacktest ==
    /\ \E n \in 1 .. MaxBtBars :
           /\ dates = Range1(n)
           /\ close \in [1 .. n -> BtPriceLevels]
           /\ \E idx \in SignalIndexes(n) :
                  \E sg \in [1 .. Len(idx) -> {0, 1}] :
                      signals = [index |-> idx, signal |-> sg, positions |-> DiffFill0(sg)]
    /\ strategy = [kind |-> "none"]
    /\ sphase = "external"
    /\ i = 0
    /\ current = 0
    /\ sig = <<>>
    /\ bt = [initial_capital |-> 0, shares |-> 0]
    /\ bphase = "none"
    /\ portfolio = NoPortfolio
    /\ ZeroCustom
    /\ ZeroRisk
    /\ ZeroOptions
    /\ ZeroDrawdown

NextBacktest ==
    \/ \E a \in Accounts : NewBacktester(a[1], a[2])
    \/ RunBacktest
    \/ \E r \in ExitRules : CustomBegin(r[1], r[2])
    \/ CustomLoop
    \/ CustomEnd

SpecBacktest == InitBacktest /\ [][NextBacktest]_vars

\* The analytics on return series and samples supplied by the caller.
InitRisk ==
    /\ close = <<1>>
    /\ strategy = [kind |-> "none"]
    /\ sphase = "new"
    /\ i = 0
    /\ current = 0
    /\ sig = <<>>
    /\ signals = NoFrame
    /\ dates = <<1>>
    /\ bt = [initial_capital |-> 0, shares |-> 0]
    /\ bphase = "none"
    /\ portfolio = NoPortfolio
    /\ ZeroCustom
    /\ beta = NaNRatio
    /\ simulated_values = <<>>
    /\ risk = NoRisk
    /\ ZeroOptions
    /\ ZeroDrawdown
    /\ \/ /\ rphase = "beta"
          /\ strategy_returns \in SeriesOver(MaxReturns, ReturnLevels)
          /\ market_returns \in SeriesOver(MaxReturns, ReturnLevels)
          /\ daily_returns = <<>>
          /\ mc = NoMC
       \/ /\ rphase = "mc"
          /\ strategy_returns = NoSeries
          /\ market_returns = NoSeries
          /\ daily_returns \in SeqsUpTo(SampleLevels, MaxSample) \ {<<>>}
          /\ mc \in [initial_value : InitialValues, num_simulations : 1 .. MaxSims,
                      horizon : Horizons]

NextRisk ==
    \/ ComputeBeta
    \/ MCStep
    \/ MCReturn
    \/ \E c \in ConfidencePcts : ComputeVaRCVaR(c)

SpecRisk == InitRisk /\ [][NextRisk]_vars

\* The options simulations on a price frame and provider data supplied by the
\* caller.  DataFetcher.fetch refuses an empty frame, so there is a first bar.
InitOptions ==
    /\ close \in [1 .. MaxOptBars -> OptPriceLevels]
             \cup UNION {[1 .. n -> OptPriceLevels] : n \in 1 .. MaxOptBars - 1}
    /\ dates = Range1(Len(close))
    /\ strategy = [kind |-> "none"]
    /\ sphase = "new"
    /\ i = 0
    /\ current = 0
    /\ sig = <<>>
    /\ signals = NoFrame
    /\ bt = [initial_capital |-> 0, shares |-> 0]
    /\ bphase = "none"
    /\ portfolio = NoPortfolio
    /\ ZeroCustom
    /\ ZeroRisk
    /\ ZeroDrawdown
    /\ opt = [kind |-> "none"]
    /\ option_dates \in {<<>>, <<1>>}
    /\ puts \in QuoteTables
    /\ calls \in QuoteTables
    /\ ophase = "none"
    /\ oi = 0
    /\ ocapital = 0
    /\ ocash = 0
    /\ state = "no_stock"
    /\ cost_basis = NoEntry
    /\ exp_price = 0
    /\ chosen_put = NoRow
    /\ chosen_call = NoRow
    /\ loss_put = 0
    /\ loss_call = 0
    /\ portfolio_values = <<>>
    /\ oportfolio = <<>>

NextOptions ==
    \/ \E w \in WheelParams : WheelInit(w[1], w[2], w[3], w[4])
    \/ \E c \in Capitals : WheelBegin(c)
    \/ WheelLoop
    \/ WheelEnd
    \/ \E s \in CreditSpreadsParams : CreditSpreadsInit(s[1], s[2], s[3])
    \/ \E c \in Capitals : CreditSpreadsBegin(c)
    \/ CreditSpreadsLoop
    \/ CreditSpreadsEnd
    \/ \E c \in IronCondorsParams : IronCondorsInit(c[1], c[2], c[3], c[4], c[5])
    \/ \E c \in Capitals : IronCondorsBegin(c)
    \/ IronCondorsLoop
    \/ IronCondorsEnd

SpecOptions == InitOptions /\ [][NextOptions]_vars

\* simulate, once called, keeps running: its loop is ordinary sequential code
FairSpecOptions == SpecOptions /\ WF_vars(NextOptions)

\* compute_drawdown_metrics on a portfolio supplied by the caller.
InitDrawdown ==
    /\ close = <<1>>
    /\ dates = <<1>>
    /\ strategy = [kind |-> "none"]
    /\ sphase = "new"
    /\ i = 0
    /\ current = 0
    /\ sig = <<>>
    /\ signals = NoFrame
    /\ bt = [initial_capital |-> 0, shares |-> 0]
    /\ bphase = "none"
    /\ portfolio = NoPortfolio
    /\ ZeroCustom
    /\ ZeroRisk
    /\ ZeroOptions
    /\ dphase = "ready"
    /\ totals \in TotalSeries
    /\ dbar = 0
    /\ trough = 0
    /\ trough_date = 0
    /\ recovery_times = <<>>
    /\ trough_set = 0
    /\ drawdown = NoDrawdown

NextDrawdown ==
    \/ DrawdownBegin
    \/ DrawdownLoop
    \/ DrawdownEnd

SpecDrawdown == InitDrawdown /\ [][NextDrawdown]_vars

-----------------------------------------------------------------------------
(* Properties of the signal generators *)

\* C1: for every strategy variant and price series, position_delta is 0 at the
\* first bar and its running sum over bars 1..t equals signal[t] - signal[1].
C1_FirstDifferenceConsistency ==
    sphase = "done" =>
        /\ Len(signals.positions) = Len(close)
        /\ Len(signals.signal) = Len(close)
        /\ signals.positions[1] = 0
        /\ \A t \in 1 .. Len(close) :
               SumRange(signals.positions, 1, t) = signals.signal[t] - signals.signal[1]

\* a generated series that starts long, goes flat and re-enters
C1_Witness ==
    /\ sphase = "done"
    /\ Len(close) >= 3
    /\ signals.signal[1] = 1
    /\ \E t \in 2 .. Len(close) - 1 : signals.signal[t] = 0 /\ signals.signal[t + 1] = 1

\* the documented configuration ranges of the four variants
ConfigValid(st) ==
    CASE st.kind = "SMA" -> st.short_window > 0 /\ st.long_window > st.short_window
      [] st.kind = "RSI" -> /\ st.period > 0
                            /\ st.oversold < st.overbought
                            /\ 0 < st.oversold /\ st.overbought < 100
      [] st.kind = "BB"  -> st.window > 0 /\ st.std_multiplier[1] > 0
      [] st.kind = "SD"  -> st.ma_window > 0 /\ st.threshold[1] >= 0
      [] OTHER -> TRUE

\* C5: parameters are validated at construction, so a signal series is only
\* ever generated from parameters inside the documented ranges.
C5_ParametersValidated == sphase = "done" => ConfigValid(strategy)

\* C7: the Bollinger signal starts flat and at each bar becomes 1 when the close
\* is below the lower band, 0 when it is above the upper band, and otherwise
\* (between the bands, on a band, or bands undefined) repeats the previous signal.
C7_BollingerHysteresis ==
    (strategy.kind = "BB" /\ sphase \in {"loop", "done"}) =>
        /\ sphase = "done" => signals.signal = sig
        /\ \A t \in 1 .. Len(sig) :
               LET before == IF t = 1 THEN 0 ELSE sig[t - 1]
                   below == BelowLower(close, strategy.window, strategy.std_multiplier, t)
                   above == AboveUpper(close, strategy.window, strategy.std_multiplier, t)
               IN  /\ below => sig[t] = 1
                   /\ (~below /\ above) => sig[t] = 0
                   /\ (~below /\ ~above) => sig[t] = before
                   /\ ~BandsDefined(strategy.window, t) => sig[t] = before

\* long, then a bar with defined bands and the close between them: still long
C7_Witness ==
    /\ strategy.kind = "BB"
    /\ sphase = "done"
    /\ \E t \in 2 .. Len(sig) :
           /\ sig[t - 1] = 1
           /\ sig[t] = 1
           /\ BandsDefined(strategy.window, t)
           /\ ~BelowLower(close, strategy.window, strategy.std_multiplier, t)
           /\ ~AboveUpper(close, strategy.window, strategy.std_multiplier, t)

\* C16: the Second-Derivative-MA signal is 0 at the first two bars; at each
\* later bar it is 1 when the second difference of the moving average is above
\* the threshold, 0 when it is below minus the threshold, and otherwise (also
\* when it equals the threshold or its negative) the previous signal.
C16_SecondDerivHysteresis ==
    (strategy.kind = "SD" /\ sphase \in {"loop", "done"}) =>
        /\ sphase = "done" => signals.signal = sig
        /\ \A t \in 1 .. Len(sig) :
               IF t <= 2 THEN sig[t] = 0
               ELSE LET v == SecondDeriv(close, strategy.ma_window, t)
                        above == SDAbove(v, strategy.threshold)
                        below == SDBelow(v, strategy.threshold)
                    IN  /\ above => sig[t] = 1
                        /\ below => sig[t] = 0
                        /\ (~above /\ ~below) => sig[t] = sig[t - 1]

\* long, then a bar whose second difference equals a positive threshold: still long
C16_Witness ==
    /\ strategy.kind = "SD"
    /\ sphase = "done"
    /\ strategy.threshold[1] > 0
    /\ \E t \in 3 .. Len(sig) :
           LET v == SecondDeriv(close, strategy.ma_window, t)
           IN  /\ v[1] * strategy.threshold[2] = strategy.threshold[1] * v[2]
               /\ sig[t - 1] = 1
               /\ sig[t] = 1

\* what holds of the positions recorded so far
C17_RecordedPositions ==
    bphase \in {"loop", "done"} =>
        /\ bphase = "done" /\ "positions" \in DOMAIN portfolio =>
               portfolio.positions = positions_series
        /\ \A k \in 1 .. Len(positions_series) :
               /\ positions_series[k] \in {0, bt.shares}
               /\ positions_series[k] = bt.shares =>
                      Loc(signals.index, signals.signal, dates[k]) = 1

CustomPass == bphase = "loop" /\ bar' = bar + 1

\* C17: in threshold-exit mode with signals in {0, 1} and shares > 0 the position
\* recorded at every bar is 0 or the share count, a bar recorded long has signal
\* 1, and one bar makes at most one trade: a bar that opens a position records
\* it open, and a bar that closes one records it flat even when the signal is 1.
C17_LongOnlyOnSignal ==
    /\ []C17_RecordedPositions
    /\ [][CustomPass =>
            LET price == close[bar + 1]
                traded == cash' - cash
            IN  /\ position = 0 =>
                      /\ position' \in {0, bt.shares}
                      /\ traded = 0 - price * position'
                      /\ position' = bt.shares => entry_price' = price
                /\ position = bt.shares =>
                      /\ position' \in {0, bt.shares}
                      /\ traded = price * (bt.shares - position')
                      /\ position' = bt.shares => entry_price' = entry_price]_vars

\* a position opened on one bar, closed by a threshold on the next bar although
\* the signal there is 1, and not reopened on that bar
C17_Witness ==
    /\ bphase = "loop"
    /\ bt.shares > 0
    /\ \E k \in 2 .. Len(positions_series) :
           /\ positions_series[k - 1] = bt.shares
           /\ positions_series[k] = 0
           /\ Loc(signals.index, signals.signal, dates[k]) = 1

ScalePrices(s, c) == [t \in 1 .. Len(s) |-> c * s[t]]

-----------------------------------------------------------------------------
(* Properties of the backtester *)

\* the exit thresholds in exact arithmetic, the targets being pc/100
ExactThreshold(price, entry, pc) ==
    \/ price * 100 >= entry * (100 + pc.profit)
    \/ price * 100 <= entry * (100 - pc.stop)

\* C2: in threshold-exit mode, at a bar reached while long from an earlier bar
\* whose price p satisfies p >= e*(1+profit_target) or p <= e*(1-stop_loss),
\* the recorded position is 0 and cash is credited p*shares, whatever the signal.
C2_ThresholdForcesExit ==
    [][(/\ bphase = "loop"
        /\ bphase' = "loop"
        /\ bar' = bar + 1
        /\ position # 0
        /\ ExactThreshold(close[bar + 1], entry_price, pct))
       => (/\ position' = 0
           /\ positions_series'[bar + 1] = 0
           /\ cash' = cash + close[bar + 1] * bt.shares)]_vars

Aligned == signals.index = dates

IsContinuous == bphase = "done" /\ "cash" \in DOMAIN portfolio

\* C3: in continuous mode, on a common index, total[t] = cash[t] + holdings[t]
\* at every bar t.
C3_TotalIsCashPlusHoldings ==
    (IsContinuous /\ Aligned) =>
        /\ Len(portfolio.total) = Len(close)
        /\ \A k \in 1 .. Len(close) :
               /\ ~IsNaN(portfolio.total[k])
               /\ ~IsNaN(portfolio.cash[k])
               /\ ~IsNaN(portfolio.holdings[k])
               /\ portfolio.total[k][1] = portfolio.cash[k][1] + portfolio.holdings[k][1]

\* a continuous run that is long at some bar and flat at a later one
C3_Witness ==
    /\ IsContinuous
    /\ Aligned
    /\ \E k \in 1 .. Len(close) - 1 :
           /\ portfolio.holdings[k][1] > 0
           /\ portfolio.holdings[k + 1][1] = 0
           /\ portfolio.cash[k + 1][1] # portfolio.cash[k][1]

\* C4: both modes end in an error, returning no portfolio, whenever the price
\* index and the signal index are not aligned one-to-one; so a returned
\* portfolio implies aligned indexes.
C4_MisalignedIsError == bphase = "done" => Aligned

\* C9: the ten-bar walk-through with SMA(2, 4), 100000 of capital and 100 shares.
C9_EndToEnd ==
    (/\ close = ScenarioPrices
     /\ strategy = [kind |-> "SMA", short_window |-> 2, long_window |-> 4]
     /\ sphase = "done") =>
        /\ signals.signal = <<0, 0, 1, 1, 0, 0, 0, 0, 1, 1>>
        /\ (bphase = "done" /\ bt = [initial_capital |-> 100000, shares |-> 100]) =>
               /\ \A k \in 1 .. 10 :
                      /\ portfolio.cash[k] =
                             Num(100000 - SumRange([m \in 1 .. 10 |->
                                        100 * signals.positions[m] * close[m]], 1, k))
                      /\ portfolio.holdings[k] = Num(100 * signals.signal[k] * close[k])
               /\ portfolio.total = <<Num(100000), Num(100000), Num(100000), Num(99900),
                                      Num(99800), Num(99800), Num(99800), Num(99800),
                                      Num(99800), Num(99900)>>

C9_Witness ==
    /\ close = ScenarioPrices
    /\ strategy = [kind |-> "SMA", short_window |-> 2, long_window |-> 4]
    /\ bphase = "done"
    /\ bt = [initial_capital |-> 100000, shares |-> 100]

-----------------------------------------------------------------------------
(* Properties of the analytics *)

\* C6: compute_beta(r, r) is 1 for every return series r with at least two
\* points and non-zero variance.
C6_BetaOfSelfIsOne ==
    (/\ rphase = "beta_done"
     /\ strategy_returns = market_returns
     /\ Len(market_returns.index) >= 2
     /\ Var(market_returns.values)[1] # 0) =>
        /\ beta[2] # 0
        /\ beta[1] = beta[2]

AllZero(sample) == \A k \in 1 .. Len(sample) : sample[k] = 0

\* initial_value over the common denominator of the simulated values
InitialValueScaled == mc.initial_value * ReturnUnit ^ mc.horizon

-----------------------------------------------------------------------------
(* Properties of the options simulations *)

\* the option tables the simulate of a class reads from the chain
ReadsCalls(kind) == kind \in {"Wheel", "IronCondors"}

\* C11: each of the three simulations ends in an error, returning no value
\* series, when the provider reports no expirations and when an option table
\* it is given has zero rows; so a returned series implies expirations and
\* tables with rows.
C11_NoQuotesIsError ==
    ophase = "done" =>
        /\ option_dates # <<>>
        /\ puts # <<>>
        /\ ReadsCalls(opt.kind) => calls # <<>>

\* a pass of the Wheel loop in state no_stock that sold a put
WheelSoldPut ==
    /\ ophase = "loop"
    /\ opt.kind = "Wheel"
    /\ state = "no_stock"
    /\ oi' = oi + 1

\* the close at bar i + holding_period, or the close of bar i past the end
LookAhead ==
    IF oi + opt.holding_period + 1 <= Len(close) THEN close[oi + opt.holding_period + 1]
    ELSE close[oi + 1]

\* C12 as stated: in state no_stock, a look-ahead price below the chosen put's
\* strike always brings assignment (cash debited strike*shares, state
\* stock_owned, strike held as cost basis); otherwise the state stays no_stock.
C12_BelowStrikeIsAssigned ==
    [][WheelSoldPut =>
          /\ exp_price' = LookAhead
          /\ IF exp_price' < chosen_put'.strike
             THEN /\ state' = "stock_owned"
                  /\ cost_basis' = chosen_put'.strike
                  /\ ocash' = ocash + Cents(chosen_put'.lastPrice * opt.shares)
                                    - Cents(chosen_put'.strike * opt.shares)
             ELSE state' = "no_stock"]_vars

\* C12 amended: assignment occurs when the look-ahead price is below the strike
\* and the cash, premium included, covers strike*shares; otherwise the state
\* stays no_stock and the cash holds the premium only.
C12_BelowStrikeIsAssignedWhenFunded ==
    [][WheelSoldPut =>
          LET collected == ocash + Cents(chosen_put'.lastPrice * opt.shares)
              cost == Cents(chosen_put'.strike * opt.shares)
          IN  /\ exp_price' = LookAhead
              /\ IF exp_price' < chosen_put'.strike /\ collected >= cost
                 THEN /\ state' = "stock_owned"
                      /\ cost_basis' = chosen_put'.strike
                      /\ ocash' = collected - cost
                 ELSE /\ state' = "no_stock"
                      /\ cost_basis' = NoEntry
                      /\ ocash' = collected]_vars

\* a put was assigned at the last bar processed
C12_Witness ==
    /\ opt.kind = "Wheel"
    /\ ophase = "loop"
    /\ state = "stock_owned"
    /\ cost_basis = chosen_put.strike
    /\ exp_price < chosen_put.strike
    /\ chosen_call = NoRow

\* C13: in every Iron-Condor block at most one side is breached: the expiration
\* price is never both below the chosen put strike and above the chosen call
\* strike, so at most one of loss_put and loss_call is nonzero.
C13_OneSideBreached ==
    (opt.kind = "IronCondors" /\ ophase \in {"loop", "done"} /\ oi > 0) =>
        /\ ~(exp_price < chosen_put.strike /\ exp_price > chosen_call.strike)
        /\ ~(loss_put # 0 /\ loss_call # 0)

Blockwise == opt.kind \in {"CreditSpreads", "IronCondors"}

\* the value at 0-based bar t is the value at the start of its block
HeldFromBlockStart(values, holding_period) ==
    \A t \in 0 .. Len(values) - 1 : values[t + 1] = values[t - (t % holding_period) + 1]

\* what holds of the list while the loop runs and of the returned column
C15_BlockShape ==
    /\ (Blockwise /\ ophase = "loop") =>
           /\ oi % opt.holding_period = 0
           /\ Len(portfolio_values) = oi
           /\ HeldFromBlockStart(portfolio_values, opt.holding_period)
           /\ oi > 0 => portfolio_values[oi] = ocash
    /\ (Blockwise /\ ophase = "done") =>
           /\ Len(oportfolio) = Len(close)
           /\ HeldFromBlockStart(oportfolio, opt.holding_period)

\* C15: Credit-Spread and Iron-Condor with holding_period >= 1 on n bars
\* terminate with exactly n values; cash changes only in a pass of the loop at
\* a block start (i mod holding_period = 0), which moves i on by holding_period;
\* every bar carries the value of its block start, a trailing partial block
\* being cut to the series length.
C15_BlocksHeldFlat ==
    /\ []C15_BlockShape
    /\ [][(Blockwise /\ ophase = "loop" /\ ocash' # ocash) =>
             /\ oi % opt.holding_period = 0
             /\ oi' = oi + opt.holding_period]_vars
    /\ (opt.kind = "none") ~> (ophase \in {"done", "error"})

\* a run of three bars in blocks of two: the second block is cut to one bar
C15_Witness ==
    /\ Blockwise
    /\ ophase = "done"
    /\ opt.holding_period = 2
    /\ Len(oportfolio) = 3
    /\ oportfolio[1] = oportfolio[2]
    /\ oportfolio[3] # oportfolio[2]

NonNegativeQuotes(table) ==
    \A r \in 1 .. Len(table) : table[r].strike >= 0 /\ table[r].lastPrice >= 0

\* C18: a Wheel run with initial_capital >= 0, shares > 0 and no negative
\* premium or strike has cash >= 0 after every bar.
C18_WheelCashNonNegative ==
    (/\ opt.kind = "Wheel"
     /\ ophase \in {"loop", "done"}
     /\ ocapital >= 0
     /\ opt.shares > 0
     /\ NonNegativeQuotes(puts)
     /\ NonNegativeQuotes(calls)) => ocash >= 0

\* a put that expired below its strike and was not assigned, the cash with the
\* premium being short of strike * shares
C18_Witness ==
    /\ opt.kind = "Wheel"
    /\ ophase = "loop"
    /\ oi > 0
    /\ state = "no_stock"
    /\ chosen_put # NoRow
    /\ exp_price < chosen_put.strike
    /\ chosen_call = NoRow
    /\ ocash < Cents(chosen_put.strike * opt.shares)
    /\ ocash >= 0

-----------------------------------------------------------------------------
(* Properties of compute_drawdown_metrics *)

\* C14: every recorded recovery time is the number of days from the date on
\* which the current trough value was set to the bar of the recovery; recording
\* a recovery resets the trough, so the next one counts from that bar.
C14_RecoveryCountsFromTroughDate ==
    [][(dphase = "loop" /\ Len(recovery_times') = Len(recovery_times) + 1) =>
          recovery_times'[Len(recovery_times')] = totals.index[dbar + 1] - trough_set]_vars

=============================================================================
